---- MODULE Spec2Model ----
(***************************************************************************)
(* Chromosome (fitness, validity check, single-pass repair) and            *)
(* KTournamentSelection of the total Roman domination genetic algorithm.   *)
(* Vertex ids and indices are 0-based as in the source; a Vec is a         *)
(* sequence, so element i of a Vec v is v[i + 1].                          *)
(***************************************************************************)
EXTENDS Integers, Sequences, FiniteSets

\* ------------------------------------------------------------- bounds ----
MaxId == 3          \* vertex ids are drawn from 0 .. MaxId-1
MaxLen == 3         \* gene sequences have 0 .. MaxLen genes
MaxPop == 3         \* populations have 0 .. MaxPop individuals

\* ------------------------------------------------------ u8 gene values ---
U8Max == 255
\* 0, 1, 2 are the labels; U8Max stands for every malformed u8 value.
GeneValues == {0, 1, 2, U8Max}

Ids == 0 .. (MaxId - 1)

\* ---------------------------------------------- SimpleGraph (collaborator)
Pairs(V) == {e \in SUBSET V : Cardinality(e) = 2}

MkGraph(V, E) ==
    [verts |-> V,
     adj   |-> [v \in V |-> {w \in V : {v, w} \in E}]]

\* every simple undirected graph whose vertex ids are in Ids (ids need not
\* be dense: add_vertex takes the id)
Graphs == UNION {{MkGraph(V, E) : E \in SUBSET Pairs(V)} : V \in SUBSET Ids}

EmptyGraph == MkGraph({}, {})

VertexCount(g) == Cardinality(g.verts)

\* neighbors(v) is Ok(set) when v is a vertex of g and Err otherwise
LookupOk(g, v) == v \in g.verts

Neighbors(g, v) == g.adj[v]

\* ------------------------------------------------------------ Chromosome -
RECURSIVE SumU8(_)
SumU8(genes) ==
    IF genes = <<>> THEN 0
    ELSE (Head(genes) + SumU8(Tail(genes))) % (U8Max + 1)

\* genes.iter().copied().map(usize::from).sum()
RECURSIVE Sum(_)
Sum(genes) ==
    IF genes = <<>> THEN 0 ELSE Head(genes) + Sum(Tail(genes))

NewU8(genes) == [genes |-> genes, fitness |-> SumU8(genes)]

New(genes) == [genes |-> genes, fitness |-> Sum(genes)]

Fitness(c) == c.fitness

CloneZeroFitness(c) == [genes |-> c.genes, fitness |-> 0]

\* #[derive(Clone)]
Clone(c) == c

\* genes[v]: an index at or past the length aborts
InRange(buf, v) == v < Len(buf)

Gene(buf, v) == buf[v + 1]

OutOfRange(nbrs, buf) == \E w \in nbrs : ~InRange(buf, w)

\* neighbors.iter().any(|&w| test(buf[w])), where hit says that some
\* in-range neighbor passes the test and oob that some neighbor id is out of
\* range: the iteration order of the neighbor set is not fixed and any()
\* stops at the first hit, so a set with a hit and an out-of-range id either
\* returns true or aborts.
AnyOutcomes(hit, oob) ==
    (IF hit THEN {"true"} ELSE {})
    \cup (IF oob THEN {"panic"} ELSE {})
    \cup (IF ~hit /\ ~oob THEN {"false"} ELSE {})

ValidZeroTest(x) == x = 2

ValidPosTest(x) == x > 0

\* the outcomes of the validity loop from vertex v on
RECURSIVE IsValidFrom(_, _, _)
IsValidFrom(genes, g, v) ==
    IF v >= VertexCount(g) THEN {"true"}
    ELSE IF ~LookupOk(g, v) THEN {"false"}
    ELSE IF ~InRange(genes, v) THEN {"panic"}
    ELSE LET x == Gene(genes, v)
             nbrs == Neighbors(g, v)
             oob == OutOfRange(nbrs, genes)
             any == IF x = 0
                       THEN AnyOutcomes(\E w \in nbrs :
                                           /\ InRange(genes, w)
                                           /\ ValidZeroTest(Gene(genes, w)),
                                        oob)
                    ELSE IF x \in {1, 2}
                       THEN AnyOutcomes(\E w \in nbrs :
                                           /\ InRange(genes, w)
                                           /\ ValidPosTest(Gene(genes, w)),
                                        oob)
                    ELSE {"false"}
         IN  (any \cap {"false", "panic"})
             \cup (IF "true" \in any THEN IsValidFrom(genes, g, v + 1) ELSE {})

IsValidOutcomes(genes, g) == IsValidFrom(genes, g, 0)

\* ------------------------------------------------------ repair, one vertex
FixZeroTest(x) == x = 2

FixPosTestMalformed(x) == x > 2

FixPosTest(x) == x > 0

IsPositiveLabelOnlyOne(x) == x = 1

IsPositiveLabel(x) == x \in {1, 2}

ZeroRepairLabelOne == 2 - 1

ZeroRepairLabel == 2

PosRepairLabel == 1

MalformedReset == 0

Ok(buf) == [panic |-> FALSE, buf |-> buf]

Panic(buf) == [panic |-> TRUE, buf |-> buf]

\* a failed any(): neighbors_vec.choose(&mut rng) and the write of label
Patch(nbrs, buf, label) ==
    IF nbrs = {} THEN {Ok(buf)}
    ELSE {Ok([buf EXCEPT ![w + 1] = label]) : w \in nbrs}

\* any is the outcome set of the arm's any() test
Branch(nbrs, buf, any, label) ==
        (IF "panic" \in any THEN {Panic(buf)} ELSE {})
        \cup (IF "true" \in any THEN {Ok(buf)} ELSE {})
        \cup (IF "false" \in any THEN Patch(nbrs, buf, label) ELSE {})

\* the body of the repair loop for vertex v on the working buffer buf
StepOutcomes(buf, g, v) ==
    IF ~LookupOk(g, v) THEN {Ok(buf)}
    ELSE IF ~InRange(buf, v) THEN {Panic(buf)}
    ELSE LET x == Gene(buf, v)
             nbrs == Neighbors(g, v)
             oob == OutOfRange(nbrs, buf)
         IN  IF x = 0
                THEN Branch(nbrs, buf,
                            AnyOutcomes(\E w \in nbrs :
                                           /\ InRange(buf, w)
                                           /\ FixZeroTest(Gene(buf, w)),
                                        oob),
                            ZeroRepairLabel)
             ELSE IF IsPositiveLabel(x)
                THEN Branch(nbrs, buf,
                            AnyOutcomes(\E w \in nbrs :
                                           /\ InRange(buf, w)
                                           /\ FixPosTest(Gene(buf, w)),
                                        oob),
                            PosRepairLabel)
             ELSE {Ok([buf EXCEPT ![v + 1] = MalformedReset])}

\* ------------------------------------------- Population (collaborator) ---
Size(p) == Len(p)

Individuals(p) == p

NewFromIndividuals(list) == list

\* ------------------------------------------------- KTournamentSelection --
\* (0..len).choose_multiple(rng, amount): the reservoir holds the first
\* amount elements; element next (next >= amount) draws a slot in
\* 0 .. next and replaces the reservoir's slot when it has one.
RECURSIVE Reservoir(_, _, _)
Reservoir(res, next, len) ==
    IF next >= len THEN {res}
    ELSE Reservoir(res, next + 1, len)
         \cup UNION {Reservoir([res EXCEPT ![s] = next], next + 1, len) :
                        s \in 1 .. Len(res)}

Min(a, b) == IF a < b THEN a ELSE b

ChooseMultiple(len, amount) ==
    Reservoir([j \in 1 .. Min(amount, len) |-> j - 1], amount, len)

KeepsFirst(new, best) == new > best

\* max_by_key replaces the kept element when the key is not smaller
Replaces(new, best) == new >= best

RECURSIVE MaxFold(_, _, _, _)
MaxFold(indices, individuals, j, best) ==
    IF j > Len(indices) THEN best
    ELSE IF Replaces(Fitness(individuals[indices[j] + 1]),
                     Fitness(individuals[best + 1]))
         THEN MaxFold(indices, individuals, j + 1, indices[j])
         ELSE MaxFold(indices, individuals, j + 1, best)

\* indices.iter().max_by_key(|&&i| individuals[i].fitness()), indices # <<>>
MaxByKey(indices, individuals) ==
    MaxFold(indices, individuals, 2, indices[1])

RoundsOneLess(p) == IF Size(p) = 0 THEN 0 ELSE Size(p) - 1

\* for _ in 0..population.size()
Rounds(p) == Size(p)

\* ------------------------------------------------------------- inputs ----
GeneSeqs == UNION {[1 .. m -> GeneValues] : m \in 0 .. MaxLen}

\* the individuals populations are made of: two of equal fitness and
\* different genes, one valid on the graph with the edge 0-1
PopPool == {New(<<0, 0>>), New(<<0, 2>>), New(<<2, 0>>), New(<<2, 2>>)}

Populations == UNION {[1 .. p -> PopPool] : p \in 0 .. MaxPop}

\* -------------------------------------------------------------- state ----
VARIABLES
    graph,            \* the SimpleGraph passed to the chromosome's methods
    self,             \* the chromosome the method is called on
    pc,               \* position of the call
    valid_ret,        \* is_valid_to_total_roman_domination's return value
    new_genes,        \* fix_chromosome's working buffer
    vertex,           \* fix_chromosome's loop variable
    fixed,            \* the chromosome fix_chromosome returns
    population,       \* select's input population
    tournament_size,  \* KTournamentSelection.tournament_size
    round,            \* select's loop counter
    indices,          \* the indices drawn in the last tournament
    best_index,       \* the best index of the last tournament
    new_individuals,  \* select's output buffer
    selected          \* the population select returns

vars == <<graph, self, pc, valid_ret, new_genes, vertex, fixed, population,
          tournament_size, round, indices, best_index, new_individuals,
          selected>>

chromVars == <<new_genes, vertex, fixed, valid_ret>>

selVars == <<round, indices, best_index, new_individuals, selected>>

inputVars == <<graph, self, population, tournament_size>>

Locals ==
    /\ pc = "ready"
    /\ valid_ret = "none"
    /\ new_genes = <<>>
    /\ vertex = 0
    /\ fixed = New(<<>>)
    /\ round = 0
    /\ indices = <<>>
    /\ best_index = 0
    /\ new_individuals = <<>>
    /\ selected = <<>>

\* a chromosome and a graph to check or repair it on
InitChromosome ==
    /\ graph \in Graphs
    /\ self \in {New(s) : s \in GeneSeqs}
    /\ population = NewFromIndividuals(<<>>)
    /\ tournament_size = 0
    /\ Locals

\* a population and a tournament size to select with
InitSelection ==
    /\ graph = EmptyGraph
    /\ self = New(<<>>)
    /\ population \in Populations
    /\ tournament_size \in 0 .. (MaxPop + 1)
    /\ Locals

Init == InitChromosome \/ InitSelection

\* ------------------------------------------------------------ actions ----
IsValidCall ==
    /\ pc = "ready"
    /\ \E r \in IsValidOutcomes(self.genes, graph) :
          IF r = "panic"
             THEN pc' = "valid_panic" /\ UNCHANGED valid_ret
             ELSE pc' = "valid_done" /\ valid_ret' = r
    /\ UNCHANGED <<new_genes, vertex, fixed, selVars, inputVars>>

\* let mut new_genes = self.genes.clone()
FixStart ==
    /\ pc = "ready"
    /\ pc' = "fix_loop"
    /\ new_genes' = self.genes
    /\ vertex' = 0
    /\ UNCHANGED <<fixed, valid_ret, selVars, inputVars>>

FixStep ==
    /\ pc = "fix_loop"
    /\ vertex < VertexCount(graph)
    /\ \E o \in StepOutcomes(new_genes, graph, vertex) :
          IF o.panic
             THEN pc' = "fix_panic" /\ UNCHANGED <<new_genes, vertex>>
             ELSE pc' = pc /\ new_genes' = o.buf /\ vertex' = vertex + 1
    /\ UNCHANGED <<fixed, valid_ret, selVars, inputVars>>

\* Chromosome::new(new_genes)
FixFinish ==
    /\ pc = "fix_loop"
    /\ vertex >= VertexCount(graph)
    /\ pc' = "fix_done"
    /\ fixed' = New(new_genes)
    /\ UNCHANGED <<new_genes, vertex, valid_ret, selVars, inputVars>>

SelectStart ==
    /\ pc = "ready"
    /\ pc' = "sel_loop"
    /\ round' = 0
    /\ new_individuals' = <<>>
    /\ UNCHANGED <<indices, best_index, selected, chromVars, inputVars>>

\* one iteration of select's loop
Tournament ==
    /\ pc = "sel_loop"
    /\ round < Rounds(population)
    /\ \E drawn \in ChooseMultiple(Len(Individuals(population)),
                                   tournament_size) :
          IF drawn = <<>>
             THEN /\ pc' = "sel_panic"
                  /\ indices' = drawn
                  /\ UNCHANGED <<round, best_index, new_individuals>>
             ELSE LET best == MaxByKey(drawn, Individuals(population))
                  IN  /\ pc' = pc
                      /\ indices' = drawn
                      /\ best_index' = best
                      /\ new_individuals' =
                            Append(new_individuals,
                                   Clone(Individuals(population)[best + 1]))
                      /\ round' = round + 1
    /\ UNCHANGED <<selected, chromVars, inputVars>>

SelectFinish ==
    /\ pc = "sel_loop"
    /\ round >= Rounds(population)
    /\ pc' = "sel_done"
    /\ selected' = NewFromIndividuals(new_individuals)
    /\ UNCHANGED <<round, indices, best_index, new_individuals, chromVars,
                   inputVars>>

Next ==
    \/ IsValidCall
    \/ FixStart
    \/ FixStep
    \/ FixFinish
    \/ SelectStart
    \/ Tournament
    \/ SelectFinish

Spec == Init /\ [][Next]_vars

TypeOK ==
    /\ pc \in {"ready", "valid_done", "fix_loop", "fix_done", "sel_loop",
               "sel_done", "valid_panic", "fix_panic", "sel_panic"}
    /\ valid_ret \in {"none", "true", "false"}

\* ------------------------------------------------- shared vocabulary -----
Labels == {0, 1, 2}

Malformed(x) == x \notin Labels

\* the sum of a gene sequence, position by position from the last one
RECURSIVE Total(_, _)
Total(genes, i) == IF i = 0 THEN 0 ELSE genes[i] + Total(genes, i - 1)

SumOfGenes(c) == Total(c.genes, Len(c.genes))

\* the domination condition of vertex u in a gene buffer
Dominated(u, buf, g) ==
    /\ LookupOk(g, u)
    /\ InRange(buf, u)
    /\ \/ /\ Gene(buf, u) = 0
          /\ \E w \in Neighbors(g, u) : InRange(buf, w) /\ Gene(buf, w) = 2
       \/ /\ Gene(buf, u) \in {1, 2}
          /\ \E w \in Neighbors(g, u) : InRange(buf, w) /\ Gene(buf, w) > 0

\* every vertex 0 .. n-1 is looked up successfully and is dominated
TotalRomanDominating(buf, g) ==
    \A v \in 0 .. (VertexCount(g) - 1) : Dominated(v, buf, g)

Dense(g) == g.verts = 0 .. (VertexCount(g) - 1)

\* ------------------------------------------------------------- claims ----
\* C1: with one gene per vertex, is_valid_to_total_roman_domination returns
\* true exactly when every vertex is looked up successfully, carries a label
\* in {0,1,2} and is dominated; it returns true on the empty graph and false
\* whenever a vertex below vertex_count has no neighbors or fails its lookup.
\* (Stated as the claim has it; the call can abort instead of returning.)
C1_ValidityContract ==
    (pc \in {"valid_done", "valid_panic"}
        /\ Len(self.genes) = VertexCount(graph))
    => /\ (valid_ret = "true") <=> TotalRomanDominating(self.genes, graph)
       /\ VertexCount(graph) = 0 => valid_ret = "true"
       /\ (\E v \in 0 .. (VertexCount(graph) - 1) :
              ~LookupOk(graph, v) \/ Neighbors(graph, v) = {})
          => valid_ret = "false"

\* C2: fix_chromosome returns the genes of a valid chromosome unchanged.
C2_RepairNoOpOnValid ==
    (pc = "fix_done" /\ IsValidOutcomes(self.genes, graph) = {"true"})
    => fixed.genes = self.genes

C2_Witness ==
    /\ pc = "fix_done"
    /\ IsValidOutcomes(self.genes, graph) = {"true"}
    /\ VertexCount(graph) = 3
    /\ \E i \in 1 .. Len(self.genes) : self.genes[i] = 0
    /\ fixed.genes = self.genes

\* C3 as stated: a label never decreases and a malformed gene ends as 0.
C3_Original ==
    pc = "fix_done"
    => /\ Len(fixed.genes) = Len(self.genes)
       /\ \A i \in 1 .. Len(self.genes) :
             /\ ~Malformed(self.genes[i]) => fixed.genes[i] >= self.genes[i]
             /\ Malformed(self.genes[i]) => fixed.genes[i] = 0

Processed(g, v) == v < VertexCount(g) /\ LookupOk(g, v)

\* C3 (amended): a label never decreases; a malformed gene of a vertex the
\* pass processes ends as a label (0 when the vertex has no neighbors); a
\* malformed gene of a vertex the pass does not process is kept or becomes 2.
C3_Monotone ==
    pc = "fix_done"
    => /\ Len(fixed.genes) = Len(self.genes)
       /\ \A i \in 1 .. Len(self.genes) :
             /\ ~Malformed(self.genes[i]) => fixed.genes[i] >= self.genes[i]
             /\ (Malformed(self.genes[i]) /\ Processed(graph, i - 1))
                => /\ fixed.genes[i] \in Labels
                   /\ Neighbors(graph, i - 1) = {} => fixed.genes[i] = 0
             /\ (Malformed(self.genes[i]) /\ ~Processed(graph, i - 1))
                => fixed.genes[i] \in {self.genes[i], 2}

C3_Witness ==
    /\ pc = "fix_done"
    /\ \E i, j \in 1 .. Len(self.genes) :
          /\ Malformed(self.genes[i])
          /\ Processed(graph, i - 1)
          /\ fixed.genes[i] = 2
          /\ self.genes[j] = 0
          /\ fixed.genes[j] = 1

\* C4: select returns as many individuals as it was given.
C4_SelectKeepsSize ==
    (pc = "sel_done" /\ 1 <= tournament_size
        /\ tournament_size <= Size(population))
    => Size(selected) = Size(population)

C4_Witness ==
    /\ pc = "sel_done"
    /\ tournament_size = 2
    /\ Size(population) = 3
    /\ Size(selected) = 3

LiveChromosomes ==
    {self} \cup (IF pc = "fix_done" THEN {fixed} ELSE {})
    \cup {population[i] : i \in 1 .. Len(population)}
    \cup {new_individuals[i] : i \in 1 .. Len(new_individuals)}
    \cup {selected[i] : i \in 1 .. Len(selected)}

\* C5: the fitness of every live chromosome is the sum of its genes, each
\* gene counted at full width; the repaired chromosome carries the sum of
\* the patched genes.
C5_FitnessIsSum ==
    \A c \in LiveChromosomes : Fitness(c) = SumOfGenes(c)

C5_Witness ==
    /\ pc = "fix_done"
    /\ Fitness(fixed) # Fitness(self)
    /\ Fitness(self) > U8Max
    /\ Fitness(fixed) = SumOfGenes(fixed)

TournamentRan ==
    /\ pc \in {"sel_loop", "sel_done"}
    /\ round >= 1
    /\ 1 <= tournament_size
    /\ tournament_size <= Size(population)

\* C6: a tournament draws tournament_size pairwise distinct indices and
\* pushes the individual at the drawn index of maximal fitness, the last
\* such index in the drawn order.
C6_TournamentPicksLastMax ==
    TournamentRan
    => /\ Len(indices) = tournament_size
       /\ \A j \in 1 .. Len(indices) :
             indices[j] \in 0 .. (Size(population) - 1)
       /\ \A j, l \in 1 .. Len(indices) :
             j # l => indices[j] # indices[l]
       /\ \E j \in 1 .. Len(indices) :
             /\ indices[j] = best_index
             /\ \A l \in 1 .. Len(indices) :
                   Fitness(population[indices[l] + 1])
                      <= Fitness(population[best_index + 1])
             /\ \A l \in (j + 1) .. Len(indices) :
                   Fitness(population[indices[l] + 1])
                      < Fitness(population[best_index + 1])
       /\ new_individuals[round] = population[best_index + 1]

C6_Witness ==
    /\ TournamentRan
    /\ Len(indices) = 2
    /\ indices[1] > indices[2]
    /\ best_index = indices[2]
    /\ Fitness(population[indices[1] + 1])
          = Fitness(population[indices[2] + 1])
    /\ population[indices[1] + 1] # population[indices[2] + 1]

CopiesOf(list, p) ==
    \A i \in 1 .. Len(list) :
       \E j \in 1 .. Len(p) :
          /\ list[i].genes = p[j].genes
          /\ Fitness(list[i]) = Fitness(p[j])

\* c has one gene per vertex of g and is valid on g
ValidOn(c, g) ==
    /\ Len(c.genes) = VertexCount(g)
    /\ IsValidOutcomes(c.genes, g) = {"true"}

\* C7: select never changes its input population, every selected
\* individual has the genes and the fitness of an input individual, and on
\* every graph on which all input individuals are valid (with one gene per
\* vertex) all selected ones are valid.
C7_SelectCopiesInput ==
    [][ /\ population' = population
        /\ CopiesOf(new_individuals', population')
        /\ CopiesOf(selected', population')
        /\ \A g \in Graphs :
              (\A j \in 1 .. Len(population') : ValidOn(population'[j], g))
              => \A i \in 1 .. Len(selected') : ValidOn(selected'[i], g)
      ]_vars

C7_Witness ==
    /\ pc = "sel_done"
    /\ Size(selected) = 3
    /\ \E i, j \in 1 .. Len(selected) : selected[i] # selected[j]
    /\ \E j \in 1 .. Len(population) :
          \A i \in 1 .. Len(selected) : selected[i] # population[j]

\* C8: no call aborts: is_valid and fix_chromosome return on every graph and
\* gene sequence, and select returns for every positive tournament_size (the
\* only abort left is select with tournament_size 0 on a non-empty
\* population).
C8_NothingIsFatal ==
    /\ pc \notin {"valid_panic", "fix_panic"}
    /\ pc = "sel_panic" => tournament_size = 0

Broken(u) ==
    Dominated(u, new_genes, graph) /\ ~Dominated(u, new_genes', graph)

\* C9 as stated: after the first step of the pass, a dominated vertex stops
\* being dominated only when the step resets its own malformed value.
C9_Original ==
    [][ (pc = "fix_loop" /\ vertex >= 1)
        => \A u \in graph.verts :
              Broken(u) => /\ u = vertex
                           /\ Malformed(Gene(new_genes, u))
                           /\ Gene(new_genes', u) = 0
      ]_vars

\* C9 (amended): a dominated vertex u stops being dominated only when u has
\* value 1 or 2 and the step resets to 0 the malformed value of the neighbor
\* of u it processes.
C9_OnlyMalformedNeighborBreaks ==
    [][ pc = "fix_loop"
        => \A u \in graph.verts :
              Broken(u) => /\ Gene(new_genes, u) \in {1, 2}
                           /\ LookupOk(graph, vertex)
                           /\ u \in Neighbors(graph, vertex)
                           /\ Malformed(Gene(new_genes, vertex))
                           /\ Gene(new_genes', vertex) = 0
      ]_vars

C9_Witness ==
    /\ pc = "fix_loop"
    /\ vertex = 2
    /\ Len(self.genes) = 3
    /\ self.genes[1] = 1
    /\ Malformed(self.genes[2])
    /\ Dominated(0, self.genes, graph)
    /\ ~Dominated(0, new_genes, graph)
    /\ new_genes[2] = 0

Repairable(c, g) ==
    /\ Dense(g)
    /\ \A v \in g.verts : Neighbors(g, v) # {}
    /\ Len(c.genes) = VertexCount(g)
    /\ \A i \in 1 .. Len(c.genes) : c.genes[i] \in Labels

\* C10: on a dense graph without isolated vertices, the repair of a
\* chromosome with one label per vertex is valid.
C10_RepairCompletes ==
    (pc = "fix_done" /\ Repairable(self, graph))
    => IsValidOutcomes(fixed.genes, graph) = {"true"}

C10_Witness ==
    /\ pc = "fix_done"
    /\ Repairable(self, graph)
    /\ VertexCount(graph) = 3
    /\ IsValidOutcomes(self.genes, graph) = {"false"}
    /\ \E i, j \in 1 .. 3 :
          /\ self.genes[i] = 0 /\ fixed.genes[i] = 2
          /\ self.genes[j] = 0 /\ fixed.genes[j] = 1
    /\ IsValidOutcomes(fixed.genes, graph) = {"true"}

====
